---- MODULE Spec2Model ----
(***************************************************************************)
(* Model of patch_money_dll.py: the mnyob99.dll byte patcher.              *)
(*                                                                         *)
(* A file is a record [len, b, rest]: its length, the bytes at the four    *)
(* patch offsets (Absent where the offset lies at or past the end of the   *)
(* file) and a token standing for every other byte of the file.           *)
(* The length is kept up to LenClass: lengths between which the program    *)
(* cannot tell (same side of the size threshold, same patch offsets in the *)
(* file, same offset or none as the last byte) are one length of the       *)
(* model, the greatest of them; the files that go on after the last patch  *)
(* offset are one length too, the least of them.                           *)
(* The file system holds the target file and the backup paths              *)
(* "<file>.backup" (slot 0) and "<file>.backup.N" (slot N).                *)
(***************************************************************************)
EXTENDS Integers, Sequences, FiniteSets, TLC

VARIABLES
    argGiven,        \* sys.argv has a path argument
    candExists,      \* which of find_money_dll's common_paths exist (1..3)
    dll_path,        \* main's dll_path: 0 = not set / None, 1..3 = common path, ArgPath
    target,          \* content of the file at the target path (NoFile: no such file)
    access,          \* os.access(target, R_OK | W_OK)
    backups,         \* slot -> content of that backup path (NoFile: does not exist)
    stdin,           \* lines still to be read by input()
    pc,              \* position of main()
    patches_needed,  \* main's patches_needed
    patches_applied, \* main's patches_applied
    ai,              \* apply_patches: position of the loop in patches_to_apply
    dirty,           \* apply_patches: patch indices written to the buffer of the file
                     \* object and not yet to the file
    backup_path,     \* main's backup_path (slot), NoSlot before create_backup returned
    exitCode,        \* process exit code, Running while the process runs
    outcome,         \* how the run ended
    written,         \* history: patch indices apply_patches wrote (f.write of line 94) in
                     \* this run, in order
    startFile,       \* history: the target when the run started
    startStdin,      \* history: standard input when the run started
    startBackups,    \* history: the backup paths when the run started
    backupSnap,      \* history: the target when create_backup copied it
    prompts,         \* history: number of input() calls of this run
    answers,         \* history: the lines input() returned in this run
    warned,          \* history: validate_file printed the size warning
    ioErr,           \* history: an I/O error was raised in this run
    envChanges,      \* history: modifications of the target by another process
    disturbed,       \* history: another process modified the target during this run
    run,             \* number of the current run of the program
    prev             \* history: result of the previous run and the state it left

vars == <<argGiven, candExists, dll_path, target, access, backups, stdin, pc,
          patches_needed, patches_applied, ai, backup_path, exitCode, outcome,
          written, startFile, startStdin, startBackups, backupSnap, prompts, answers, warned, ioErr,
          envChanges, disturbed, run, prev, dirty>>

-----------------------------------------------------------------------------
(* Bounds of the model *)

\* backup slots 0..MaxBackups-1 may exist before the run
MaxBackups == 3
\* modifications of the target by another process during one behaviour
MaxEnvChanges == 1
\* runs of the program in one behaviour
MaxRuns == 2

-----------------------------------------------------------------------------
(* Program constants *)

\* PATCHES, indexed 0..3 as in the source
PATCHES ==
    [i \in 0..3 |->
        CASE i = 0 -> [offset |-> 4173032, original_byte |-> 133, new_byte |-> 141]
          [] i = 1 -> [offset |-> 4173037, original_byte |-> 80,  new_byte |-> 81]
          [] i = 2 -> [offset |-> 4173040, original_byte |-> 255, new_byte |-> 133]
          [] i = 3 -> [offset |-> 4173046, original_byte |-> 232, new_byte |-> 185]]

\* validate_file: "if file_size < 1000000"
SizeThreshold == 1000000

\* number of entries of common_paths
NumCommonPaths == 3

\* main calls input() at most twice, so at most two lines of standard input are read
NumPrompts == 2

-----------------------------------------------------------------------------
(* Values *)

\* f.read(1) at or past the end of the file yields no byte
Absent == 0 - 1
NoSlot == 0 - 1
Running == 0 - 1
ArgPath == NumCommonPaths + 1

\* a byte that is neither the original nor the replacement byte of any patch
OtherByte ==
    CHOOSE v \in 0..255 :
        \A i \in 0..3 : v # PATCHES[i].original_byte /\ v # PATCHES[i].new_byte

\* byte values tried at patch offset i
ByteChoices(i) == {PATCHES[i].original_byte, PATCHES[i].new_byte, OtherByte}

\* file lengths: below the size threshold (and below every patch offset), ending
\* between the offsets of patches 1 and 2, and covering all four offsets
SmallLen == SizeThreshold - 1
MidLen == PATCHES[2].offset
FullLen == PATCHES[3].offset + 1
\* a file that goes on after the offset of the last patch
LongLen == FullLen + 1

\* the lengths of the model: the empty file, the last length below and the
\* first at the size threshold, for each patch the file that ends before its
\* offset and the file that ends with it, and the file that goes on after the
\* last patch
LenReps ==
    {0, SmallLen, SizeThreshold, LongLen}
    \cup {PATCHES[i].offset : i \in 0..3} \cup {PATCHES[i].offset + 1 : i \in 0..3}

\* the length of the model that stands for a file of n bytes
LenClass(n) ==
    IF n >= LongLen THEN LongLen
    ELSE CHOOSE r \in LenReps : r >= n /\ \A q \in LenReps : q >= n => r <= q

\* bytes at the patch offsets as a file of length n shows them
Clip(n, b) == [i \in 0..3 |-> IF PATCHES[i].offset < n THEN b[i] ELSE Absent]

\* the file of n bytes with b at the patch offsets that lie in it
MkFile(n, b, r) == [len |-> LenClass(n), b |-> Clip(n, b), rest |-> r]

NoFile == [len |-> 0 - 1, b |-> [i \in 0..3 |-> Absent], rest |-> 0]
EmptyFile == MkFile(0, [i \in 0..3 |-> Absent], 0)

AllBytes == UNION {ByteChoices(i) : i \in 0..3}
Rows == {b \in [0..3 -> AllBytes] : \A i \in 0..3 : b[i] \in ByteChoices(i)}

\* target files a run may start on
Files == {MkFile(n, b, 0) : n \in {SmallLen, FullLen, LongLen}, b \in Rows}

\* content of a backup left by an earlier use of the tool
OldBackup == MkFile(FullLen, [i \in 0..3 |-> PATCHES[i].original_byte], 1)

\* lines typed at a prompt; "" is the bare Enter that takes the default N
Responses == {"y", "Y", "n", ""}

RECURSIVE SeqsUpTo(_, _)
SeqsUpTo(S, n) ==
    IF n = 0 THEN {<<>>}
    ELSE LET shorter == SeqsUpTo(S, n - 1)
         IN shorter \cup {Append(s, x) : s \in {t \in shorter : Len(t) = n - 1}, x \in S}

Stdins == SeqsUpTo(Responses, NumPrompts)

-----------------------------------------------------------------------------
(* The functions of the program *)

\* os.path.exists of a backup path
Exists(fs, slot) == slot \in DOMAIN fs /\ fs[slot] # NoFile

\* a comparison that forgets .lower()
LowerMissing(s) == s

\* str.lower() on the lines the model feeds to input()
Lower(s) ==
    CASE s = "Y" -> "y"
      [] s = "N" -> "n"
      [] s = "YES" -> "yes"
      [] OTHER -> s

\* a prompt whose default is yes
ConfirmedByDefault(response) == Lower(response) # "n"

\* "response.lower() != 'y'" is false: the prompt is confirmed
Confirmed(response) == Lower(response) = "y"

\* find_money_dll: the first common path that exists, 0 for None
RECURSIVE FindFrom(_, _)
FindFrom(exists, i) ==
    IF i > NumCommonPaths THEN 0
    ELSE IF i \in exists THEN i
    ELSE FindFrom(exists, i + 1)

\* a search whose loop does not stop at the first hit: the last existing path wins
find_money_dll_last(exists) ==
    IF exists \cap (1..NumCommonPaths) = {} THEN 0
    ELSE CHOOSE c \in exists \cap (1..NumCommonPaths) :
            \A d \in exists \cap (1..NumCommonPaths) : d <= c

find_money_dll(exists) == FindFrom(exists, 1)

\* a classification whose "elif" is an "else"
ClassifyNoUnexpected(current_byte, i) ==
    IF current_byte = PATCHES[i].original_byte THEN "NeedsApply" ELSE "AlreadyApplied"

\* lines 53-59: the state of patch i given the byte read at its offset
Classify(current_byte, i) ==
    IF current_byte = PATCHES[i].original_byte THEN "NeedsApply"
    ELSE IF current_byte = PATCHES[i].new_byte THEN "AlreadyApplied"
    ELSE "Unexpected"

\* verify_patches: the loop from patch i on. raised: f.read(1)[0] met the end of
\* the file (IndexError)
RECURSIVE VerifyFrom(_, _, _, _)
VerifyFrom(f, i, needed, applied) ==
    IF i > 3 THEN [raised |-> FALSE, needed |-> needed, applied |-> applied]
    ELSE IF f.b[i] = Absent THEN [raised |-> TRUE, needed |-> <<>>, applied |-> <<>>]
    ELSE IF Classify(f.b[i], i) = "NeedsApply"
         THEN VerifyFrom(f, i + 1, Append(needed, i), applied)
    ELSE IF Classify(f.b[i], i) = "AlreadyApplied"
         THEN VerifyFrom(f, i + 1, needed, Append(applied, i))
    ELSE VerifyFrom(f, i + 1, needed, applied)

\* a verify_patches for which a read at the end of the file yields some byte
verify_patches_padded(f) ==
    VerifyFrom([f EXCEPT !.b = [i \in 0..3 |-> IF f.b[i] = Absent THEN OtherByte
                                                ELSE f.b[i]]], 0, <<>>, <<>>)

\* verify_patches, lines 43-61
verify_patches(f) == VerifyFrom(f, 0, <<>>, <<>>)

\* create_backup: the while loop choosing backup_path
RECURSIVE BackupLoop(_, _, _)
BackupLoop(fs, path, counter) ==
    IF Exists(fs, path) THEN BackupLoop(fs, counter, counter + 1) ELSE path

\* a loop whose counter starts at 2
ChooseBackupPathFromTwo(fs) == BackupLoop(fs, 0, 2)

ChooseBackupPath(fs) == BackupLoop(fs, 0, 1)

\* a copy that writes nothing
Copy2Nothing(src, dstOld) == dstOld

\* shutil.copy2(src, dst) that succeeds: the file at dst has the content of src
Copy2(src, dstOld) == src

\* the lengths of the model below n: every file shorter than n bytes has one of
\* them, or the length n itself
CutLens(n) == {r \in LenReps : r < n}

\* shutil.copy2 that raises: dst is untouched (the error came before dst was
\* opened), holds the bytes of src copied before the error, a prefix of src of
\* any length, or holds all of src (the error came in copystat, after the
\* content was copied)
Copy2Failed(src, dstOld) ==
    {dstOld} \cup
    (IF src = NoFile THEN {}
     ELSE {src} \cup {MkFile(n, src.b, IF n = 0 THEN 0 ELSE src.rest) :
                         n \in CutLens(src.len)})

\* the file after the bytes of the buffer were written to it
Flush(f, d) ==
    [f EXCEPT !.b = [i \in 0..3 |-> IF \E k \in 1..Len(d) : d[k] = i
                                     THEN PATCHES[i].new_byte ELSE f.b[i]]]

\* the file after a flush that raised: the bytes before the error are written
FlushFailed(f, d) == {Flush(f, SubSeq(d, 1, n)) : n \in 0..(Len(d) - 1)}

\* the file object is closed at the end of the "with" block of line 79: the
\* buffer is flushed, or the flush raises
Close(f, d) ==
    {[file |-> Flush(f, d), raised |-> FALSE]} \cup
    {[file |-> g, raised |-> TRUE] : g \in FlushFailed(f, d)}

\* an iteration that writes without comparing the byte it read
ApplyOneUnchecked(f, d, idx, io, n) ==
    IF io = "read" /\ d = <<>>
    THEN [result |-> "raise", file |-> f, dirty |-> d, err |-> TRUE]
    ELSE IF f.b[idx] = Absent
    THEN IF io = "flush" /\ d # <<>>
         THEN [result |-> "raise", file |-> Flush(f, SubSeq(d, 1, n)),
               dirty |-> SubSeq(d, n + 1, Len(d)), err |-> TRUE]
         ELSE [result |-> "raise", file |-> Flush(f, d), dirty |-> <<>>,
               err |-> (io = "read")]
    ELSE IF PATCHES[idx].offset + 1 = f.len /\ d # <<>>
    THEN IF io = "flush"
         THEN [result |-> "raise", file |-> Flush(f, SubSeq(d, 1, n)),
               dirty |-> SubSeq(d, n + 1, Len(d)), err |-> TRUE]
         ELSE [result |-> "written", file |-> Flush(f, d), dirty |-> <<idx>>,
               err |-> FALSE]
    ELSE [result |-> "written", file |-> f, dirty |-> Append(d, idx), err |-> FALSE]

\* an iteration that puts no new byte in the buffer
ApplyOneSameByte(f, d, idx, io, n) ==
    IF io = "read" /\ d = <<>>
    THEN [result |-> "raise", file |-> f, dirty |-> d, err |-> TRUE]
    ELSE IF f.b[idx] = Absent
    THEN IF io = "flush" /\ d # <<>>
         THEN [result |-> "raise", file |-> Flush(f, SubSeq(d, 1, n)),
               dirty |-> SubSeq(d, n + 1, Len(d)), err |-> TRUE]
         ELSE [result |-> "raise", file |-> Flush(f, d), dirty |-> <<>>,
               err |-> (io = "read")]
    ELSE IF f.b[idx] # PATCHES[idx].original_byte
    THEN [result |-> "mismatch", file |-> f, dirty |-> d, err |-> FALSE]
    ELSE [result |-> "written", file |-> f, dirty |-> d, err |-> FALSE]

\* an iteration that writes one byte past the offset it read
ApplyOneNextOffset(f, d, idx, io, n) ==
    IF io = "read" /\ d = <<>>
    THEN [result |-> "raise", file |-> f, dirty |-> d, err |-> TRUE]
    ELSE IF f.b[idx] = Absent
    THEN IF io = "flush" /\ d # <<>>
         THEN [result |-> "raise", file |-> Flush(f, SubSeq(d, 1, n)),
               dirty |-> SubSeq(d, n + 1, Len(d)), err |-> TRUE]
         ELSE [result |-> "raise", file |-> Flush(f, d), dirty |-> <<>>,
               err |-> (io = "read")]
    ELSE IF f.b[idx] # PATCHES[idx].original_byte
    THEN [result |-> "mismatch", file |-> f, dirty |-> d, err |-> FALSE]
    ELSE [result |-> "written", file |-> [f EXCEPT !.rest = f.rest + 1],
          dirty |-> d, err |-> FALSE]

\* one iteration of the loop of apply_patches on patch idx, with the bytes d in
\* the buffer of the file object. io: "none", "read" (the open of line 79, the
\* read that fills the buffer or a read at the end of the file raises), "flush"
\* (a flush of the buffer raises, after the first n bytes of the buffer were
\* written to the file). The open comes before every read: when it raises
\* nothing is read, whatever the length of the file.
\* A read past the end of the file flushes the buffer and then yields no byte
\* (IndexError). f.write only fills the buffer; the second f.seek flushes the
\* buffer when the read took the last byte of the file, and leaves it alone in
\* a file that goes on: there the bytes stay in the buffer until the close.
ApplyOne(f, d, idx, io, n) ==
    IF io = "read" /\ d = <<>>
    THEN [result |-> "raise", file |-> f, dirty |-> d, err |-> TRUE]
    ELSE IF f.b[idx] = Absent
    THEN IF io = "flush" /\ d # <<>>
         THEN [result |-> "raise", file |-> Flush(f, SubSeq(d, 1, n)),
               dirty |-> SubSeq(d, n + 1, Len(d)), err |-> TRUE]
         ELSE [result |-> "raise", file |-> Flush(f, d), dirty |-> <<>>,
               err |-> (io = "read")]
    ELSE IF f.b[idx] # PATCHES[idx].original_byte
    THEN [result |-> "mismatch", file |-> f, dirty |-> d, err |-> FALSE]
    ELSE IF PATCHES[idx].offset + 1 = f.len /\ d # <<>>
    THEN IF io = "flush"
         THEN [result |-> "raise", file |-> Flush(f, SubSeq(d, 1, n)),
               dirty |-> SubSeq(d, n + 1, Len(d)), err |-> TRUE]
         ELSE [result |-> "written", file |-> Flush(f, d), dirty |-> <<idx>>,
               err |-> FALSE]
    ELSE [result |-> "written", file |-> f, dirty |-> Append(d, idx), err |-> FALSE]

-----------------------------------------------------------------------------
(* State *)

NoPrev == [outcome |-> "none", target |-> NoFile, backups |-> <<>>, needed |-> <<>>]

\* the backup paths that may exist before the first run hold an old backup
InitBackups ==
    {[s \in 0..(MaxBackups + MaxRuns - 1) |-> IF s \in old THEN OldBackup ELSE NoFile] :
        old \in SUBSET (0..(MaxBackups - 1))}

\* the state of main() when the process starts
FreshRun ==
    /\ pc = "start"
    /\ dll_path = 0
    /\ patches_needed = <<>>
    /\ patches_applied = <<>>
    /\ ai = 0
    /\ dirty = <<>>
    /\ backup_path = NoSlot
    /\ exitCode = Running
    /\ outcome = "running"
    /\ written = <<>>
    /\ startFile = target
    /\ startStdin = stdin
    /\ startBackups = backups
    /\ disturbed = FALSE
    /\ backupSnap = NoFile
    /\ prompts = 0
    /\ answers = <<>>
    /\ warned = FALSE
    /\ ioErr = FALSE

\* a target with every patch offset at its original byte
OriginalFile == MkFile(FullLen, [i \in 0..3 |-> PATCHES[i].original_byte], 0)

\* an unpatched target that goes on after the last patch offset, as the DLL does
LongOriginalFile == MkFile(LongLen, OriginalFile.b, 0)

\* the unpatched targets
OriginalFiles == {OriginalFile, LongOriginalFile}

NoBackups == {fs \in InitBackups : \A s \in DOMAIN fs : fs[s] = NoFile}

\* Runs on an accessible file named by the argument: every file of Files and
\* every standard input, no old backup
InitWorkflow ==
    /\ argGiven = TRUE
    /\ candExists = {}
    /\ target \in Files
    /\ access = TRUE
    /\ backups \in NoBackups
    /\ stdin \in Stdins

\* Confirmed runs on an unpatched file, on every set of old backups
InitOldBackups ==
    /\ argGiven = TRUE
    /\ candExists = {}
    /\ target \in OriginalFiles
    /\ access = TRUE
    /\ backups \in InitBackups
    /\ stdin \in {<<"y">>, <<"Y", "y">>}

\* targets of InitLocate: none, one below the size threshold, one of exactly
\* the threshold, one that ends between patches 1 and 2, and the unpatched file
LocateFiles ==
    {NoFile} \cup OriginalFiles \cup
    {MkFile(n, OriginalFile.b, 0) : n \in {SmallLen, SizeThreshold, MidLen}}

\* Runs with and without the argument, on every set of existing common paths,
\* on a missing, an inaccessible, a short and an unpatched target
InitLocate ==
    /\ argGiven \in BOOLEAN
    /\ candExists \in SUBSET (1..NumCommonPaths)
    /\ target \in LocateFiles
    \* without an argument the target is the first common path that exists
    /\ (~argGiven) => (target = NoFile <=> candExists = {})
    /\ access \in BOOLEAN
    /\ (target = NoFile) => ~access
    /\ backups \in NoBackups
    /\ stdin \in {<<>>, <<"y", "y">>}

Init ==
    /\ InitWorkflow \/ InitOldBackups \/ InitLocate
    /\ envChanges = 0
    /\ run = 1
    /\ prev = NoPrev
    /\ FreshRun

\* the process ends with exit code `code`
Exit(code, how) ==
    /\ pc' = "done"
    /\ exitCode' = code
    /\ outcome' = how

-----------------------------------------------------------------------------
(* main() *)

\* lines 118-133: determine dll_path
Resolve ==
    /\ pc = "start"
    /\ IF argGiven
       THEN /\ dll_path' = ArgPath
            /\ pc' = "validate"
            /\ UNCHANGED <<exitCode, outcome>>
       ELSE LET found == find_money_dll(candExists)
            IN /\ dll_path' = found
               /\ IF found = 0
                  THEN Exit(1, "not_located")
                  ELSE pc' = "validate" /\ UNCHANGED <<exitCode, outcome>>
    /\ UNCHANGED <<argGiven, candExists, target, access, backups, stdin,
                   patches_needed, patches_applied, ai, backup_path, written,
                   startFile, startStdin, startBackups, backupSnap, prompts, answers, warned,
                   ioErr, envChanges, disturbed, run, prev, dirty>>

\* a validate_file that tests os.access before os.path.exists
validate_file_access_first(f, acc) ==
    IF ~acc THEN [raised |-> "PermissionError", warned |-> FALSE]
    ELSE IF f = NoFile THEN [raised |-> "FileNotFoundError", warned |-> FALSE]
    ELSE [raised |-> "none", warned |-> f.len < SizeThreshold]

\* a validate_file that raises on a file below the size threshold
validate_file_rejects_small(f, acc) ==
    IF f = NoFile THEN [raised |-> "FileNotFoundError", warned |-> FALSE]
    ELSE IF ~acc THEN [raised |-> "PermissionError", warned |-> FALSE]
    ELSE IF f.len < SizeThreshold THEN [raised |-> "ValueError", warned |-> TRUE]
    ELSE [raised |-> "none", warned |-> FALSE]

\* validate_file: the exception it raises ("none": it returns) and whether it
\* printed the size warning
validate_file(f, acc) ==
    IF f = NoFile THEN [raised |-> "FileNotFoundError", warned |-> FALSE]
    ELSE IF ~acc THEN [raised |-> "PermissionError", warned |-> FALSE]
    ELSE [raised |-> "none", warned |-> f.len < SizeThreshold]

\* line 137 and validate_file
Validate ==
    /\ pc = "validate"
    /\ LET r == validate_file(target, access)
       IN IF r.raised # "none"
          THEN Exit(1, r.raised) /\ UNCHANGED warned
          ELSE /\ warned' = r.warned
               /\ pc' = "verify"
               /\ UNCHANGED <<exitCode, outcome>>
    /\ UNCHANGED <<argGiven, candExists, dll_path, target, access, backups, stdin,
                   patches_needed, patches_applied, ai, backup_path, written,
                   startFile, startStdin, startBackups, backupSnap, prompts, answers,
                   ioErr, envChanges, disturbed, run, prev, dirty>>

\* a test that takes any unexpected byte for a pattern mismatch
PatternMismatchAny(needed, applied) == Len(needed) + Len(applied) < 4

\* line 142: "if not patches_needed and not patches_applied"
PatternMismatch(needed, applied) == needed = <<>> /\ applied = <<>>

\* line 140 and the test of line 142
Verify ==
    /\ pc = "verify"
    /\ LET r == verify_patches(target)
       IN IF r.raised
          THEN /\ Exit(1, "IndexError")
               /\ UNCHANGED <<patches_needed, patches_applied>>
          ELSE /\ patches_needed' = r.needed
               /\ patches_applied' = r.applied
               /\ pc' = IF PatternMismatch(r.needed, r.applied) THEN "prompt1" ELSE "check"
               /\ UNCHANGED <<exitCode, outcome>>
    /\ UNCHANGED <<argGiven, candExists, dll_path, target, access, backups, stdin,
                   ai, backup_path, written, startFile, startStdin, startBackups, backupSnap,
                   prompts, answers, warned, ioErr, envChanges, disturbed, run, prev, dirty>>

\* a prompt that takes the end of standard input for a refusal
AskEndOfInputDeclines(next) ==
    /\ prompts' = prompts + 1
    /\ IF stdin = <<>>
       THEN /\ Exit(0, "declined")
            /\ UNCHANGED <<stdin, answers>>
       ELSE /\ stdin' = Tail(stdin)
            /\ answers' = Append(answers, Head(stdin))
            /\ IF Confirmed(Head(stdin))
               THEN pc' = next /\ UNCHANGED <<exitCode, outcome>>
               ELSE Exit(0, "declined")
    /\ UNCHANGED <<argGiven, candExists, dll_path, target, access, backups,
                   patches_needed, patches_applied, ai, backup_path, written,
                   startFile, startStdin, startBackups, backupSnap, warned, ioErr,
                   envChanges, disturbed, run, prev, dirty>>

\* input() and the test of the response, lines 144-147 and 160-163:
\* on confirmation main goes on at `next`
Ask(next) ==
    /\ prompts' = prompts + 1
    /\ IF stdin = <<>>
       THEN /\ Exit(1, "EOFError")
            /\ UNCHANGED <<stdin, answers>>
       ELSE /\ stdin' = Tail(stdin)
            /\ answers' = Append(answers, Head(stdin))
            /\ IF Confirmed(Head(stdin))
               THEN pc' = next /\ UNCHANGED <<exitCode, outcome>>
               ELSE Exit(0, "declined")
    /\ UNCHANGED <<argGiven, candExists, dll_path, target, access, backups,
                   patches_needed, patches_applied, ai, backup_path, written,
                   startFile, startStdin, startBackups, backupSnap, warned, ioErr, envChanges,
                   disturbed, run, prev, dirty>>

\* lines 142-147: the file matches no expected pattern
Prompt1 == pc = "prompt1" /\ Ask("check")

\* lines 149-151
CheckNeeded ==
    /\ pc = "check"
    /\ IF patches_needed = <<>>
       THEN Exit(0, "nothing")
       ELSE pc' = "prompt2" /\ UNCHANGED <<exitCode, outcome>>
    /\ UNCHANGED <<argGiven, candExists, dll_path, target, access, backups, stdin,
                   patches_needed, patches_applied, ai, backup_path, written,
                   startFile, startStdin, startBackups, backupSnap, prompts, answers, warned,
                   ioErr, envChanges, disturbed, run, prev, dirty>>

\* lines 158-163
Prompt2 == pc = "prompt2" /\ Ask("backup")

\* create_backup that returns its path without having copied the file
create_backup_nocopy(fs, f) == [path |-> ChooseBackupPath(fs), fs |-> fs]

\* create_backup: the path chosen and the backup paths after a successful copy
create_backup(fs, f) ==
    LET path == ChooseBackupPath(fs)
    IN [path |-> path, fs |-> [fs EXCEPT ![path] = Copy2(f, fs[path])]]

\* a main that catches the error of create_backup and goes on to apply_patches
BackupErrorIgnored ==
    /\ pc = "backup"
    /\ \/ LET r == create_backup(backups, target)
          IN /\ backups' = r.fs
             /\ backup_path' = r.path
             /\ backupSnap' = target
             /\ UNCHANGED ioErr
       \/ /\ \E left \in Copy2Failed(target, backups[ChooseBackupPath(backups)]) :
                backups' = [backups EXCEPT ![ChooseBackupPath(backups)] = left]
          /\ ioErr' = TRUE
          /\ UNCHANGED <<backup_path, backupSnap>>
    /\ ai' = 1
    /\ pc' = "apply"
    /\ UNCHANGED <<argGiven, candExists, dll_path, target, access, stdin,
                   patches_needed, patches_applied, written, startFile, startStdin,
                   startBackups, prompts, answers, warned, envChanges, disturbed,
                   run, prev, dirty, exitCode, outcome>>

\* line 166: create_backup returns, or shutil.copy2 raises in it
Backup ==
    /\ pc = "backup"
    /\ \/ LET r == create_backup(backups, target)
          IN /\ backups' = r.fs
             /\ backup_path' = r.path
             /\ backupSnap' = target
             /\ ai' = 1
             /\ pc' = "apply"
             /\ UNCHANGED <<exitCode, outcome, ioErr>>
       \/ /\ \E left \in Copy2Failed(target, backups[ChooseBackupPath(backups)]) :
                backups' = [backups EXCEPT ![ChooseBackupPath(backups)] = left]
          /\ ioErr' = TRUE
          /\ Exit(1, "backup_failed")
          /\ UNCHANGED <<backup_path, backupSnap, ai>>
    /\ UNCHANGED <<argGiven, candExists, dll_path, target, access, stdin,
                   patches_needed, patches_applied, written, startFile, startStdin,
                   startBackups, prompts, answers, warned, envChanges, disturbed, run, prev, dirty>>

\* lines 80-95: one iteration of the loop of apply_patches. A mismatch and an
\* exception leave the "with" block, which closes the file object: after a
\* mismatch apply_patches returns False to line 170 and main goes to line 177,
\* unless the close raises; an exception goes to line 182
ApplyStep ==
    /\ pc = "apply"
    /\ ai <= Len(patches_needed)
    /\ \E io \in {"none", "read", "flush"},
          n \in 0..(IF dirty = <<>> THEN 0 ELSE Len(dirty) - 1) :
          LET idx == patches_needed[ai]
              r == ApplyOne(target, dirty, idx, io, n)
          IN CASE r.result = "written" ->
                       /\ target' = r.file
                       /\ dirty' = r.dirty
                       /\ written' = Append(written, idx)
                       /\ ai' = ai + 1
                       /\ UNCHANGED <<pc, exitCode, outcome, ioErr>>
                  [] r.result = "mismatch" ->
                       /\ \E c \in Close(r.file, r.dirty) :
                             /\ target' = c.file
                             /\ ioErr' = (ioErr \/ c.raised)
                             /\ IF c.raised
                                THEN Exit(1, "apply_raised")
                                ELSE pc' = "restore" /\ UNCHANGED <<exitCode, outcome>>
                       /\ dirty' = <<>>
                       /\ UNCHANGED <<written, ai>>
                  [] OTHER ->
                       /\ \E c \in Close(r.file, r.dirty) :
                             /\ target' = c.file
                             /\ ioErr' = (ioErr \/ r.err \/ c.raised)
                       /\ dirty' = <<>>
                       /\ Exit(1, "apply_raised")
                       /\ UNCHANGED <<written, ai>>
    /\ UNCHANGED <<argGiven, candExists, dll_path, access, backups, stdin,
                   patches_needed, patches_applied, backup_path, startFile, startStdin,
                   startBackups, backupSnap, prompts, answers, warned, envChanges,
                   disturbed, run, prev>>

\* the loop is over and the "with" block closes the file object; line 97 and
\* lines 172-175: apply_patches returns True and main ends, unless the close
\* raises (line 182)
ApplyReturn ==
    /\ pc = "apply"
    /\ ai > Len(patches_needed)
    /\ \E c \in Close(target, dirty) :
          /\ target' = c.file
          /\ ioErr' = (ioErr \/ c.raised)
          /\ IF c.raised THEN Exit(1, "apply_raised") ELSE Exit(0, "success")
    /\ dirty' = <<>>
    /\ UNCHANGED <<argGiven, candExists, dll_path, access, backups, stdin,
                   patches_needed, patches_applied, ai, backup_path, written,
                   startFile, startStdin, startBackups, backupSnap, prompts, answers, warned,
                   envChanges, disturbed, run, prev>>

\* a restoration that copies "<file>.backup" whatever path create_backup chose
RestoreFirstBackup(fs, path, f) == Copy2(fs[0], f)

\* line 178: shutil.copy2(backup_path, dll_path) that succeeds
RestoreBackup(fs, path, f) == Copy2(fs[path], f)

\* lines 177-180: the backup is copied over the target, or shutil.copy2 raises
Restore ==
    /\ pc = "restore"
    /\ \/ /\ target' = RestoreBackup(backups, backup_path, target)
          /\ Exit(1, "restored")
          /\ UNCHANGED ioErr
       \/ /\ target' \in Copy2Failed(backups[backup_path], target)
          /\ ioErr' = TRUE
          /\ Exit(1, "restore_failed")
    /\ UNCHANGED <<argGiven, candExists, dll_path, access, backups, stdin,
                   patches_needed, patches_applied, ai, backup_path, written,
                   startFile, startStdin, startBackups, backupSnap, prompts, answers, warned,
                   envChanges, disturbed, run, prev, dirty>>

-----------------------------------------------------------------------------
(* The environment *)

\* what another process may make of the target while main waits in input():
\* one patch offset rewritten, or the file cut between patches 1 and 2
EnvFiles(f) ==
    UNION {{[f EXCEPT !.b[i] = v] : v \in ByteChoices(i)} :
              i \in {j \in 0..3 : f.b[j] # Absent}}
    \cup (IF f.len > MidLen THEN {MkFile(MidLen, f.b, f.rest)} ELSE {})

EnvChange ==
    /\ pc \in {"prompt1", "prompt2"}
    /\ envChanges < MaxEnvChanges
    /\ \E f \in EnvFiles(target) \ {target} : target' = f
    /\ envChanges' = envChanges + 1
    /\ disturbed' = TRUE
    /\ UNCHANGED <<argGiven, candExists, dll_path, access, backups, stdin, pc,
                   patches_needed, patches_applied, ai, backup_path, exitCode,
                   outcome, written, startFile, startStdin, startBackups, backupSnap, prompts,
                   answers, warned, ioErr, run, prev, dirty>>

\* the program is started again on the file a successful run left
NewRun ==
    /\ pc = "done"
    /\ outcome = "success"
    /\ run < MaxRuns
    /\ run' = run + 1
    /\ prev' = [outcome |-> outcome, target |-> target, backups |-> backups,
                needed |-> patches_needed]
    /\ stdin' \in {<<>>, <<"y", "y">>}
    /\ pc' = "start"
    /\ dll_path' = 0
    /\ patches_needed' = <<>>
    /\ patches_applied' = <<>>
    /\ ai' = 0
    /\ dirty' = <<>>
    /\ backup_path' = NoSlot
    /\ exitCode' = Running
    /\ outcome' = "running"
    /\ written' = <<>>
    /\ startFile' = target
    /\ startStdin' = stdin'
    /\ startBackups' = backups
    /\ disturbed' = FALSE
    /\ backupSnap' = NoFile
    /\ prompts' = 0
    /\ answers' = <<>>
    /\ warned' = FALSE
    /\ ioErr' = FALSE
    /\ UNCHANGED <<argGiven, candExists, target, access, backups, envChanges>>

Next ==
    \/ Resolve
    \/ Validate
    \/ Verify
    \/ Prompt1
    \/ CheckNeeded
    \/ Prompt2
    \/ Backup
    \/ ApplyStep
    \/ ApplyReturn
    \/ Restore
    \/ EnvChange
    \/ NewRun

Spec == Init /\ [][Next]_vars

-----------------------------------------------------------------------------
(* Properties *)

\* main() or apply_patches() has written to the target in this run
ProgramWrote == written # <<>> \/ outcome \in {"restored", "restore_failed"}

\* C1: whenever the program has written to the target (or the target differs
\* from its content at the start of the run and no other process touched it),
\* create_backup has returned and the backup file exists with the content the
\* target had when it was copied; so no write precedes the backup.
C1_BackupBeforeWrite ==
    (ProgramWrote \/ (~disturbed /\ target # startFile)) =>
        /\ backup_path # NoSlot
        /\ backupSnap # NoFile
        /\ Exists(backups, backup_path)
        /\ backups[backup_path] = backupSnap

\* apply_patches has written to a target that goes on after the last patch
\* offset, and the target differs from the file the run started on
C1_Witness ==
    /\ startFile.len = LongLen
    /\ written # <<>>
    /\ ~disturbed
    /\ target # startFile
    /\ target.b[0] = PATCHES[0].new_byte

\* C2: when apply_patches returned failure, main ends with exit code 1, and
\* when the restoring copy did not raise the target is the content copied at
\* backup time, whatever had been written before the failing index.
C2_FailureRestores ==
    /\ pc = "restore" =>
          /\ Exists(backups, backup_path)
          /\ backups[backup_path] = backupSnap
    /\ outcome \in {"restored", "restore_failed"} => (pc = "done" /\ exitCode = 1)
    /\ outcome = "restored" => target = backupSnap

\* a run restored the target after two patches had been written
C2_Witness ==
    /\ pc = "done"
    /\ outcome = "restored"
    /\ written = <<0, 1>>
    /\ target = backupSnap

\* C3: when patch application ends in an exception after the backup was
\* created, the run ends with exit code 1 only after the target was restored:
\* no run ends with exit code 1, a backup and a target that differs from the
\* content copied at backup time, unless the restoring copy itself failed.
C3_ExceptionRestores ==
    (/\ pc = "done"
     /\ exitCode = 1
     /\ backup_path # NoSlot
     /\ outcome # "restore_failed") => target = backupSnap

\* the ascending list of the members of a set of integers
RECURSIVE AscList(_)
AscList(S) ==
    IF S = {} THEN <<>>
    ELSE LET m == CHOOSE x \in S : \A y \in S : x <= y
         IN <<m>> \o AscList(S \ {m})

Range(q) == {q[k] : k \in 1..Len(q)}

\* verify_patches has returned its two lists in this run
Classified ==
    /\ pc \notin {"start", "validate", "verify"}
    /\ outcome \notin {"not_located", "FileNotFoundError", "PermissionError",
                       "IndexError"}

\* C4: verify_patches returns as needsApply the ascending list of exactly the
\* indices whose byte is the original byte and as alreadyApplied the ascending
\* list of exactly those whose byte is the replacement byte; an index whose
\* byte is neither is in neither list, the lists are disjoint and the file is
\* as it was. All original: ([0,1,2,3], []); all replacement: ([], [0,1,2,3]).
C4_Classification ==
    Classified =>
        /\ patches_needed =
              AscList({i \in 0..3 : startFile.b[i] = PATCHES[i].original_byte})
        /\ patches_applied =
              AscList({i \in 0..3 : startFile.b[i] = PATCHES[i].new_byte})
        /\ \A i \in 0..3 :
              (/\ startFile.b[i] # PATCHES[i].original_byte
               /\ startFile.b[i] # PATCHES[i].new_byte)
              => i \notin Range(patches_needed) \cup Range(patches_applied)
        /\ Range(patches_needed) \cap Range(patches_applied) = {}
        /\ (\A i \in 0..3 : startFile.b[i] = PATCHES[i].original_byte)
              => (patches_needed = <<0, 1, 2, 3>> /\ patches_applied = <<>>)
        /\ (\A i \in 0..3 : startFile.b[i] = PATCHES[i].new_byte)
              => (patches_needed = <<>> /\ patches_applied = <<0, 1, 2, 3>>)
        /\ (pc \in {"prompt1", "check"} /\ ~disturbed) => target = startFile

\* a file with patches 0 and 3 to apply, patch 1 applied and an unexpected
\* byte at patch 2 was classified
C4_Witness ==
    /\ pc = "check"
    /\ patches_needed = <<0, 3>>
    /\ patches_applied = <<1>>
    /\ startFile.b[2] = OtherByte

\* apply_patches returned False in this run
ApplyFailed == pc = "restore" \/ outcome \in {"restored", "restore_failed"}

\* C5: apply_patches takes the indices in the given order; every index it has
\* written held its original byte, and when it returns failure the indices
\* before the failing one are written with their replacement bytes, the
\* failing index holds a byte other than its original byte and neither it nor
\* a later index is written, then or afterwards.
C5_FailFast ==
    /\ ai >= 1 => written = SubSeq(patches_needed, 1, Len(written))
    /\ pc = "apply" => Len(written) = ai - 1
    /\ \A k \in 1..Len(written) :
          backupSnap.b[written[k]] = PATCHES[written[k]].original_byte
    /\ ApplyFailed =>
          /\ ai <= Len(patches_needed)
          /\ written = SubSeq(patches_needed, 1, ai - 1)
    /\ pc = "restore" =>
          /\ target.b[patches_needed[ai]] # PATCHES[patches_needed[ai]].original_byte
          /\ \A k \in 1..Len(patches_needed) :
                target.b[patches_needed[k]] =
                    IF k < ai THEN PATCHES[patches_needed[k]].new_byte
                    ELSE backupSnap.b[patches_needed[k]]
    /\ (/\ ApplyFailed
        /\ patches_needed = <<0, 1, 2, 3>>
        /\ backupSnap.b[0] = PATCHES[0].original_byte
        /\ backupSnap.b[1] = PATCHES[1].original_byte
        /\ backupSnap.b[2] # PATCHES[2].original_byte) => written = <<0, 1>>

\* the byte of patch 2 became the replacement byte after classification:
\* apply_patches wrote patches 0 and 1 and returned failure at patch 2
C5_Witness ==
    /\ pc = "restore"
    /\ patches_needed = <<0, 1, 2, 3>>
    /\ written = <<0, 1>>
    /\ target.b[2] = PATCHES[2].new_byte
    /\ target.b[3] = PATCHES[3].original_byte

\* a step of the program itself
ProgramStep ==
    \/ Resolve \/ Validate \/ Verify \/ Prompt1 \/ CheckNeeded \/ Prompt2
    \/ Backup \/ ApplyStep \/ ApplyReturn \/ Restore

\* the file f with the four patches applied
Patched(f) == [f EXCEPT !.b = [i \in 0..3 |-> PATCHES[i].new_byte]]

\* a run on the unpatched file with two confirmations on standard input,
\* so far without I/O error and without another process touching the file
C6_Case ==
    /\ startFile \in OriginalFiles
    /\ access
    /\ Len(startStdin) = 2
    /\ \A k \in 1..2 : startStdin[k] \in {"y", "Y"}
    /\ ~ioErr
    /\ ~disturbed

\* C6: on a file with the four original bytes, with the user confirming twice
\* and no I/O error, the run goes on until it ends, and it ends with exit code
\* 0, the patches written in the order 0, 1, 2, 3, a new backup file holding
\* the original content, and the bytes 0x8D, 0x51, 0x85, 0xB9 at the offsets.
C6_FullPatch ==
    C6_Case =>
        /\ pc # "done" => ENABLED ProgramStep
        /\ pc = "done" =>
              /\ exitCode = 0
              /\ outcome = "success"
              /\ written = <<0, 1, 2, 3>>
              /\ backup_path # NoSlot
              /\ ~Exists(startBackups, backup_path)
              /\ backups[backup_path] = startFile
              /\ backups[backup_path].b = OriginalFile.b
              /\ target = Patched(startFile)
              /\ <<target.b[0], target.b[1], target.b[2], target.b[3]>>
                    = <<141, 81, 133, 185>>

C6_Witness ==
    /\ C6_Case
    /\ startStdin = <<"Y", "y">>
    /\ pc = "done"
    /\ outcome = "success"
    /\ startFile = LongOriginalFile
    /\ target = Patched(LongOriginalFile)

\* C7: "nothing to do" is the outcome only of a run whose needsApply is empty
\* and whose alreadyApplied is not: a run with both lists empty whose user
\* confirmed goes on to the second confirmation instead.
C7_NothingToDoOnlyIfApplied ==
    outcome = "nothing" => (patches_needed = <<>> /\ patches_applied # <<>>)

\* C8: a response other than "y" or "Y" to either prompt ends the run with exit
\* code 0, no byte of the target written and no backup created.
C8_DeclineIsClean ==
    (\E k \in 1..Len(answers) : answers[k] \notin {"y", "Y"}) =>
        /\ pc = "done"
        /\ exitCode = 0
        /\ outcome = "declined"
        /\ answers[Len(answers)] \notin {"y", "Y"}
        /\ written = <<>>
        /\ backup_path = NoSlot
        /\ backups = startBackups
        /\ ~disturbed => target = startFile

\* the bare Enter at the second prompt, on a file that needs patches
C8_Witness ==
    /\ pc = "done"
    /\ outcome = "declined"
    /\ patches_needed # <<>>
    /\ answers = <<"">>

\* C9: the run after a successful run, on the file as that run left it, finds
\* the indices that run applied already applied, asks nothing, writes nothing,
\* creates no backup and ends with "nothing to do" and exit code 0.
C9_SecondRunIdempotent ==
    (run > 1 /\ prev.outcome = "success" /\ envChanges = 0) =>
        /\ prompts = 0
        /\ written = <<>>
        /\ backup_path = NoSlot
        /\ backups = prev.backups
        /\ target = prev.target
        /\ Classified =>
              /\ patches_needed = <<>>
              /\ Range(prev.needed) \subseteq Range(patches_applied)
        /\ pc = "done" => (outcome = "nothing" /\ exitCode = 0)

C9_Witness ==
    /\ run = 2
    /\ target.len = LongLen
    /\ envChanges = 0
    /\ prev.outcome = "success"
    /\ prev.needed = <<0, 2>>
    /\ pc = "done"
    /\ outcome = "nothing"

\* C10: create_backup writes to "<file>.backup" when that path does not exist
\* and else to "<file>.backup.N" for the smallest N >= 1 that does not exist;
\* the path did not exist before, every other backup path is as it was, and
\* the new file has the content of the target.
C10_BackupPath ==
    backup_path # NoSlot =>
        /\ ~Exists(startBackups, backup_path)
        /\ backup_path # 0 =>
              /\ backup_path >= 1
              /\ Exists(startBackups, 0)
              /\ \A n \in 1..(backup_path - 1) : Exists(startBackups, n)
        /\ \A s \in DOMAIN backups \ {backup_path} : backups[s] = startBackups[s]
        /\ backups[backup_path] = backupSnap

\* ".backup" and ".backup.2" existed and ".backup.1" did not: ".backup.1" is
\* the path of the new backup
C10_Witness ==
    /\ backup_path = 1
    /\ Exists(startBackups, 0)
    /\ Exists(startBackups, 2)
    /\ backups[1] = backupSnap

\* the copy of create_backup raised in this run: an I/O error occurred and no
\* backup was completed
BackupFailed == ioErr /\ backupSnap = NoFile

\* C11: when create_backup raises, the run ends with exit code 1 and
\* apply_patches is not called: no byte of the target is written in that run.
C11_BackupFailureAborts ==
    BackupFailed =>
        /\ pc = "done"
        /\ exitCode = 1
        /\ outcome = "backup_failed"
        /\ ai = 0
        /\ written = <<>>
        /\ backup_path = NoSlot
        /\ ~disturbed => target = startFile

\* the copy failed and left a truncated file at the backup path; the target
\* needed patches and is as it was
C11_Witness ==
    /\ BackupFailed
    /\ pc = "done"
    /\ patches_needed = <<0, 1, 2, 3>>
    /\ target = OriginalFile
    /\ \E s \in DOMAIN backups : backups[s] = EmptyFile

\* the ways a run ends without error, and with one
CleanOutcomes == {"success", "declined", "nothing"}
ErrorOutcomes ==
    {"not_located", "FileNotFoundError", "PermissionError", "IndexError",
     "EOFError", "backup_failed", "apply_raised", "restored", "restore_failed"}

\* what has happened in a run that ended the way `how` says
OutcomeHappened(how) ==
    CASE how = "success" ->
            /\ patches_needed # <<>>
            /\ written = patches_needed
            /\ backup_path # NoSlot
            /\ answers # <<>>
            /\ \A k \in 1..Len(answers) : answers[k] \in {"y", "Y"}
      [] how = "declined" ->
            /\ answers # <<>>
            /\ answers[Len(answers)] \notin {"y", "Y"}
      [] how = "nothing" -> patches_needed = <<>> /\ written = <<>>
      [] how = "not_located" -> ~argGiven /\ candExists = {} /\ dll_path = 0
      [] how = "FileNotFoundError" -> dll_path # 0 /\ startFile = NoFile
      [] how = "PermissionError" -> dll_path # 0 /\ startFile # NoFile /\ ~access
      [] how = "IndexError" -> \E i \in 0..3 : startFile.b[i] = Absent
      [] how = "EOFError" -> stdin = <<>> /\ prompts = Len(answers) + 1
      [] how = "backup_failed" -> ioErr /\ backupSnap = NoFile
      [] how = "apply_raised" ->
            /\ backupSnap # NoFile
            /\ ioErr \/ \E i \in 0..3 : target.b[i] = Absent
      [] how = "restored" -> backupSnap # NoFile /\ target = backupSnap
      [] how = "restore_failed" -> backupSnap # NoFile /\ ioErr
      [] OTHER -> FALSE

\* C12: a run goes on until it ends, and it ends with exit code 0 or 1: 0
\* exactly after successful patching, a declined confirmation or "nothing to
\* do", 1 exactly after an error (target not found, validation failure, backup
\* failure, patch failure and restoration, any other exception, also one raised
\* by input()).
C12_ExitCodes ==
    /\ pc # "done" =>
          /\ exitCode = Running
          /\ outcome = "running"
          /\ ENABLED ProgramStep
    /\ pc = "done" =>
          /\ exitCode \in {0, 1}
          /\ outcome \in CleanOutcomes \cup ErrorOutcomes
          /\ exitCode = 0 <=> outcome \in CleanOutcomes
          /\ exitCode = 1 <=> outcome \in ErrorOutcomes
          /\ OutcomeHappened(outcome)

\* input() raised EOFError at the second prompt and the run ended with code 1
C12_Witness ==
    /\ pc = "done"
    /\ startFile.len = LongLen
    /\ exitCode = 1
    /\ outcome = "EOFError"
    /\ patches_needed # <<>>
    /\ prompts = 1

\* main has called validate_file in this run
ValidateCalled == dll_path # 0 /\ pc # "validate"

\* nothing but the end of the run has happened since validate_file
StoppedAtValidation ==
    /\ pc = "done"
    /\ exitCode = 1
    /\ patches_needed = <<>>
    /\ patches_applied = <<>>
    /\ prompts = 0
    /\ stdin = startStdin
    /\ backup_path = NoSlot
    /\ backups = startBackups
    /\ written = <<>>
    /\ target = startFile

\* C13: validate_file raises FileNotFoundError when the target does not exist
\* and PermissionError when it exists without read and write access, existence
\* being tested first; either ends the run with exit code 1 before
\* classification, without prompt, backup or write.
C13_ValidationErrors ==
    ValidateCalled =>
        /\ startFile = NoFile =>
              (outcome = "FileNotFoundError" /\ StoppedAtValidation)
        /\ (startFile # NoFile /\ ~access) =>
              (outcome = "PermissionError" /\ StoppedAtValidation)
        /\ outcome \in {"FileNotFoundError", "PermissionError"} =>
              (startFile = NoFile \/ ~access)

\* an existing target named by the argument, without access
C13_Witness ==
    /\ pc = "done"
    /\ argGiven
    /\ startFile = OriginalFile
    /\ ~access
    /\ outcome = "PermissionError"

\* C14: a target below the 1,000,000-byte threshold only gets the warning:
\* validate_file returns for every existing, accessible file, warns exactly
\* when the size is below the threshold, and main goes on to verify_patches.
C14_SmallFileOnlyWarns ==
    (ValidateCalled /\ startFile # NoFile /\ access) =>
        /\ warned <=> startFile.len < SizeThreshold
        /\ pc = "verify" \/ Classified \/ outcome = "IndexError"
        /\ pc = "done" =>
              outcome \in (CleanOutcomes \cup ErrorOutcomes)
                  \ {"not_located", "FileNotFoundError", "PermissionError"}

\* validate_file has warned about a file of 999,999 bytes and main is about
\* to classify it
C14_Witness ==
    /\ pc = "verify"
    /\ warned
    /\ target.len = SizeThreshold - 1
    /\ exitCode = Running

\* C15: a run that ends in successful patching has called apply_patches with
\* exactly the needsApply list, in ascending order, and has changed the target
\* only at the offsets of those indices, each from its original to its
\* replacement byte: the bytes of the alreadyApplied and Unexpected indices,
\* every other byte and the length are as they were.
C15_SuccessFrame ==
    outcome = "success" =>
        /\ written = patches_needed
        /\ patches_needed = AscList(Range(patches_needed))
        /\ target.len = backupSnap.len
        /\ target.rest = backupSnap.rest
        /\ \A i \in 0..3 :
              IF i \in Range(patches_needed)
              THEN /\ backupSnap.b[i] = PATCHES[i].original_byte
                   /\ target.b[i] = PATCHES[i].new_byte
              ELSE target.b[i] = backupSnap.b[i]
        /\ ~disturbed =>
              /\ backupSnap = startFile
              /\ Range(patches_needed) =
                    {i \in 0..3 : startFile.b[i] = PATCHES[i].original_byte}
              /\ \A i \in Range(patches_applied) : target.b[i] = PATCHES[i].new_byte

\* patches 0 and 3 were applied; patch 1 was already applied and the
\* unexpected byte at patch 2 is still there
C15_Witness ==
    /\ outcome = "success"
    /\ ~disturbed
    /\ startFile.len = LongLen
    /\ target.len = LongLen
    /\ written = <<0, 3>>
    /\ patches_applied = <<1>>
    /\ target.b[2] = OtherByte
    /\ target.b[0] = PATCHES[0].new_byte
    /\ startFile.b[0] = PATCHES[0].original_byte

\* C16: without a path argument the target is the first of the common paths
\* that exists, whichever of them exist, and if none exists the run ends with
\* exit code 1 having touched no file; with a path argument the common paths
\* are not consulted and the argument is the target, existing or not.
C16_Locate ==
    pc # "start" =>
        /\ argGiven => dll_path = ArgPath
        /\ (argGiven /\ startFile = NoFile) =>
              (pc = "validate" \/ outcome = "FileNotFoundError")
        /\ (~argGiven /\ candExists # {}) =>
              /\ dll_path \in candExists
              /\ \A c \in candExists : dll_path <= c
        /\ (~argGiven /\ candExists = {}) =>
              /\ dll_path = 0
              /\ pc = "done"
              /\ exitCode = 1
              /\ outcome = "not_located"
              /\ prompts = 0
              /\ written = <<>>
              /\ target = startFile
              /\ backups = startBackups
        /\ outcome = "not_located" => (~argGiven /\ candExists = {})

\* the second and third common paths exist and no argument is given: the
\* second is the target
C16_Witness ==
    /\ ~argGiven
    /\ candExists = {2, 3}
    /\ dll_path = 2
    /\ pc = "validate"

\* C17: when the restoring copy fails after a failed apply, the run still ends
\* with exit code 1, and the backup file still exists with the content copied
\* at backup time, although the target may be left mutated.
C17_RestoreFailureKeepsBackup ==
    outcome = "restore_failed" =>
        /\ pc = "done"
        /\ exitCode = 1
        /\ backupSnap # NoFile
        /\ Exists(backups, backup_path)
        /\ backups[backup_path] = backupSnap
        /\ \A s \in DOMAIN backups \ {backup_path} : backups[s] = startBackups[s]

\* the restoring copy failed with two patches written: the target is left
\* mutated and the backup holds the content to recover
C17_Witness ==
    /\ outcome = "restore_failed"
    /\ written = <<0, 1>>
    /\ target # backupSnap
    /\ target.b[0] = PATCHES[0].new_byte
    /\ backups[backup_path].b[0] = PATCHES[0].original_byte

\* some offset holds a byte that is neither its original nor its replacement
HasUnexpected(f) ==
    \E i \in 0..3 : f.b[i] \notin {PATCHES[i].original_byte, PATCHES[i].new_byte}

\* C18: when classification finds a NeedsApply index, the pattern-mismatch
\* confirmation is not asked, whatever the other indices hold; after the single
\* mutation confirmation a run without outside modification patches exactly the
\* NeedsApply indices and reports success with exit code 0, every other offset
\* keeps the byte it had, so no offset holds its original byte although an
\* Unexpected offset does not hold its replacement byte.
C18_MixedFilePatched ==
    /\ patches_needed # <<>> =>
          /\ pc # "prompt1"
          /\ prompts <= 1
          /\ pc \in {"check", "prompt2"} => prompts = 0
    /\ outcome = "success" =>
          /\ exitCode = 0
          /\ prompts = 1
          /\ written = patches_needed
    /\ (outcome = "success" /\ ~disturbed) =>
          \A i \in 0..3 :
             /\ target.b[i] # PATCHES[i].original_byte
             /\ i \in Range(patches_needed) =>
                   /\ startFile.b[i] = PATCHES[i].original_byte
                   /\ target.b[i] = PATCHES[i].new_byte
             /\ i \notin Range(patches_needed) => target.b[i] = startFile.b[i]

\* a file with NeedsApply and Unexpected indices was patched with success and
\* an offset still holds its unexpected byte
C18_Witness ==
    /\ outcome = "success"
    /\ ~disturbed
    /\ prompts = 1
    /\ HasUnexpected(startFile)
    /\ HasUnexpected(target)
    /\ written # <<>>
    /\ startFile.len = LongLen
    /\ target # Patched(startFile)

\* the last sentence of C18 without its premise: after every run that reports
\* successful patching no patch offset holds its original byte
C18_AnySuccessNoOriginal ==
    outcome = "success" =>
        \A i \in 0..3 : target.b[i] # PATCHES[i].original_byte

\* the file of this run exists, is accessible and ends at or before some patch
\* offset
TooShort ==
    /\ startFile # NoFile
    /\ access
    /\ \E i \in 0..3 : startFile.len < PATCHES[i].offset + 1

\* C19: a target shorter than some patch offset plus one byte makes
\* verify_patches raise on the empty read: the run ends with exit code 1, no
\* confirmation prompt, no backup and no byte written. All four offsets are
\* beyond the warning threshold, so every file that gets the size warning is
\* such a file.
C19_ShortFileAborts ==
    /\ \A i \in 0..3 : PATCHES[i].offset >= SizeThreshold
    /\ (startFile # NoFile /\ startFile.len < SizeThreshold) =>
          \A i \in 0..3 : startFile.b[i] = Absent
    /\ (TooShort /\ pc \notin {"start", "validate", "verify"}) =>
          /\ pc = "done"
          /\ outcome = "IndexError"
          /\ exitCode = 1
          /\ prompts = 0
          /\ answers = <<>>
          /\ stdin = startStdin
          /\ backups = startBackups
          /\ backup_path = NoSlot
          /\ written = <<>>
          /\ target = startFile
          /\ patches_needed = <<>>
          /\ patches_applied = <<>>
    /\ (warned /\ pc = "done") => outcome = "IndexError"

\* a file above the threshold that holds the first two offsets and ends before
\* the third was given with a confirmation waiting; the run ended on the read
C19_Witness ==
    /\ outcome = "IndexError"
    /\ exitCode = 1
    /\ ~warned
    /\ startFile.b[0] # Absent
    /\ startFile.b[2] = Absent
    /\ target = startFile

\* a file below the threshold got the warning and then ended on the read
C19_WarnedWitness == warned /\ outcome = "IndexError" /\ startFile.len < SizeThreshold

====
